---- MODULE Spec2Model ----
(***************************************************************************)
(* Model of the Binance futures trading bot core: the input validators     *)
(* (bot/validators.py), the order placement flow (bot/orders.py) and the   *)
(* signed HTTP client with its retry loop (bot/client.py).                 *)
(*                                                                         *)
(* Python str values are sequences of one-character strings, so that       *)
(* strip(), upper(), isalpha(), Decimal(str) and str(Decimal) are computed *)
(* character by character as the interpreter computes them.                *)
(***************************************************************************)
EXTENDS Integers, Sequences, FiniteSets, TLC

(***************************************************************************)
(* Bounds of the model.                                                    *)
(***************************************************************************)
\* max_retries of a constructed client ranges over 0..MaxRetriesBound
MaxRetriesBound == 3
\* readings of the millisecond clock range over 1..MaxTimestamp
MaxTimestamp == 2

(***************************************************************************)
(* Python str primitives.                                                  *)
(***************************************************************************)
LowerLetters == <<"a","b","c","d","e","f","g","h","i","j","k","l","m",
                  "n","o","p","q","r","s","t","u","v","w","x","y","z">>
UpperLetters == <<"A","B","C","D","E","F","G","H","I","J","K","L","M",
                  "N","O","P","Q","R","S","T","U","V","W","X","Y","Z">>
DigitChars == <<"0","1","2","3","4","5","6","7","8","9">>
Whitespace == {" "}

Range(f) == {f[i] : i \in DOMAIN f}

IsDigit(c) == c \in Range(DigitChars)

IsAlphaChar(c) == c \in Range(LowerLetters) \cup Range(UpperLetters)

\* str.upper() on one character
UpperChar(c) ==
    IF c \in Range(LowerLetters)
    THEN UpperLetters[CHOOSE i \in DOMAIN LowerLetters : LowerLetters[i] = c]
    ELSE c

\* str.upper()
Upper(s) == [i \in DOMAIN s |-> UpperChar(s[i])]

RECURSIVE LStrip(_)
LStrip(s) ==
    IF s # <<>> /\ Head(s) \in Whitespace THEN LStrip(Tail(s)) ELSE s

RECURSIVE RStrip(_)
RStrip(s) ==
    IF s # <<>> /\ s[Len(s)] \in Whitespace
    THEN RStrip(SubSeq(s, 1, Len(s) - 1))
    ELSE s

\* str.strip()
Strip(s) == RStrip(LStrip(s))

\* str.isalpha(): non-empty and every character alphabetic
IsAlpha(s) == s # <<>> /\ \A i \in DOMAIN s : IsAlphaChar(s[i])

\* the characters of a Python str, joined into one TLA+ string
RECURSIVE Join(_)
Join(s) == IF s = <<>> THEN "" ELSE Head(s) \o Join(Tail(s))

(***************************************************************************)
(* Values of the Python data model that the program handles.               *)
(***************************************************************************)
PyNone == [t |-> "none", s |-> <<>>, n |-> 0]
PyText(s) == [t |-> "str", s |-> s, n |-> 0]
PyInt(n) == [t |-> "int", s |-> <<>>, n |-> n]

\* the decimal digits of a natural number
RECURSIVE NatDigits(_)
NatDigits(n) ==
    IF n < 10 THEN <<DigitChars[n + 1]>>
    ELSE NatDigits(n \div 10) \o <<DigitChars[(n % 10) + 1]>>

\* the value of a digit string
RECURSIVE DigitsNat(_)
DigitsNat(d) ==
    IF d = <<>> THEN 0
    ELSE 10 * DigitsNat(SubSeq(d, 1, Len(d) - 1))
         + ((CHOOSE i \in DOMAIN DigitChars : DigitChars[i] = d[Len(d)]) - 1)

\* str(int)
IntStr(n) == IF n < 0 THEN <<"-">> \o NatDigits(-n) ELSE NatDigits(n)

\* str(v) for the values above
PyStr(v) ==
    CASE v.t = "none" -> <<"N","o","n","e">>
      [] v.t = "int" -> IntStr(v.n)
      [] OTHER -> v.s

(***************************************************************************)
(* decimal.Decimal: construction from a string, comparison with 0, str().  *)
(***************************************************************************)
AllDigits(s) == \A i \in DOMAIN s : IsDigit(s[i])

RECURSIVE StripZeros(_)
StripZeros(d) ==
    IF Len(d) > 1 /\ Head(d) = "0" THEN StripZeros(Tail(d)) ELSE d

\* position of the first occurrence of c in s, 0 when absent
IndexOf(s, c) ==
    IF \E i \in DOMAIN s : s[i] = c
    THEN CHOOSE i \in DOMAIN s : s[i] = c /\ \A j \in 1..(i - 1) : s[j] # c
    ELSE 0

BadDecimal == [kind |-> "bad", neg |-> FALSE, digits |-> <<>>, exp |-> 0]

\* a signed integer exponent; <<ok, value>>
ParseExponent(e) ==
    LET neg == e # <<>> /\ Head(e) = "-"
        body == IF e # <<>> /\ Head(e) \in {"+", "-"} THEN Tail(e) ELSE e
    IN IF body # <<>> /\ AllDigits(body)
       THEN <<TRUE, IF neg THEN 0 - DigitsNat(body) ELSE DigitsNat(body)>>
       ELSE <<FALSE, 0>>

\* the numeric string  digits [. digits] [E exponent]  (already upper-cased)
ParseNumber(neg, body) ==
    LET ePos == IndexOf(body, "E")
        mant == IF ePos = 0 THEN body ELSE SubSeq(body, 1, ePos - 1)
        expo == IF ePos = 0 THEN <<TRUE, 0>>
                ELSE ParseExponent(SubSeq(body, ePos + 1, Len(body)))
        dot  == IndexOf(mant, ".")
        ip   == IF dot = 0 THEN mant ELSE SubSeq(mant, 1, dot - 1)
        fp   == IF dot = 0 THEN <<>> ELSE SubSeq(mant, dot + 1, Len(mant))
    IN IF expo[1] /\ AllDigits(ip) /\ AllDigits(fp) /\ Len(ip) + Len(fp) > 0
       THEN [kind |-> "num", neg |-> neg,
             digits |-> StripZeros(ip \o fp), exp |-> expo[2] - Len(fp)]
       ELSE BadDecimal

\* Decimal(s): kind "bad" stands for the constructor raising InvalidOperation
DecimalOf(s) ==
    LET t    == Upper(Strip(s))
        neg  == t # <<>> /\ Head(t) = "-"
        body == IF t # <<>> /\ Head(t) \in {"+", "-"} THEN Tail(t) ELSE t
    IN CASE body \in {<<"I","N","F">>, <<"I","N","F","I","N","I","T","Y">>} ->
              [kind |-> "inf", neg |-> neg, digits |-> <<>>, exp |-> 0]
         [] body \in {<<"N","A","N">>, <<"S","N","A","N">>} ->
              [kind |-> "nan", neg |-> neg, digits |-> <<>>, exp |-> 0]
         [] OTHER -> ParseNumber(neg, body)

\* d <= 0 for a Decimal that is not a NaN
DecimalLeqZero(d) ==
    IF d.kind = "inf" THEN d.neg
    ELSE d.neg \/ d.digits = <<"0">>

Zeros(k) == [i \in 1..k |-> "0"]

\* str(Decimal)
DecimalStr(d) ==
    LET sign == IF d.neg THEN <<"-">> ELSE <<>>
        len  == Len(d.digits)
        leftdigits == d.exp + len
        dotplace == IF d.exp <= 0 /\ leftdigits > -6 THEN leftdigits ELSE 1
        intpart == IF dotplace <= 0 THEN <<"0">>
                   ELSE IF dotplace >= len
                        THEN d.digits \o Zeros(dotplace - len)
                        ELSE SubSeq(d.digits, 1, dotplace)
        fracpart == IF dotplace <= 0
                    THEN <<".">> \o Zeros(0 - dotplace) \o d.digits
                    ELSE IF dotplace >= len THEN <<>>
                         ELSE <<".">> \o SubSeq(d.digits, dotplace + 1, len)
        e == leftdigits - dotplace
        expo == IF e = 0 THEN <<>>
                ELSE <<"E">> \o (IF e < 0 THEN <<"-">> ELSE <<"+">>)
                     \o NatDigits(IF e < 0 THEN 0 - e ELSE e)
    IN CASE d.kind = "inf" -> sign \o <<"I","n","f","i","n","i","t","y">>
         [] d.kind = "nan" -> sign \o <<"N","a","N">>
         [] OTHER -> sign \o intpart \o fracpart \o expo

(***************************************************************************)
(* bot/validators.py.  A validator either returns a value or raises; both  *)
(* are a record  [ok, value, exc].                                         *)
(***************************************************************************)
NoCause == [type |-> "none", attempt |-> 0]

\* an exception: its class, the order field it is about (validators), its
\* message, code and status_code (BinanceAPIError) and its __cause__
Exc(type, field, msg, code, status_code, cause) ==
    [type |-> type, field |-> field, msg |-> msg, code |-> code,
     status_code |-> status_code, cause |-> cause]

NoExc == Exc("none", "", "", 0, 0, NoCause)

Returns(v) == [ok |-> TRUE, value |-> v, exc |-> NoExc]

Raises(type, field, msg) ==
    [ok |-> FALSE, value |-> <<>>,
     exc |-> Exc(type, field, msg, 0, 0, NoCause)]

VALID_SIDES == {<<"B","U","Y">>, <<"S","E","L","L">>}

MARKET == <<"M","A","R","K","E","T">>
LIMIT == <<"L","I","M","I","T">>
STOP_MARKET == <<"S","T","O","P","_","M","A","R","K","E","T">>

VALID_ORDER_TYPES == {MARKET, LIMIT, STOP_MARKET}

validate_symbol(symbol) ==
    LET sym == Upper(Strip(symbol))
    IN IF sym = <<>>
       THEN Raises("ValueError", "symbol", "Symbol cannot be empty.")
       ELSE IF ~IsAlpha(sym)
            THEN Raises("ValueError", "symbol", "Symbol is invalid.")
            ELSE Returns(sym)

validate_side(side) ==
    LET sd == Upper(Strip(side))
    IN IF sd \notin VALID_SIDES
       THEN Raises("ValueError", "side", "Side is invalid.")
       ELSE Returns(sd)

validate_order_type(order_type) ==
    LET ot == Upper(Strip(order_type))
    IN IF ot \notin VALID_ORDER_TYPES
       THEN Raises("ValueError", "order_type", "Order type is invalid.")
       ELSE Returns(ot)

\* the comparison qty <= 0 is outside the try block: on a NaN it raises
\* decimal.InvalidOperation, which is not a ValueError
validate_quantity(quantity) ==
    LET qty == DecimalOf(PyStr(quantity))
    IN CASE qty.kind = "bad" ->
              Raises("ValueError", "quantity", "Quantity is not a valid number.")
         [] qty.kind = "nan" ->
              Raises("InvalidOperation", "quantity", "comparison involving NaN")
         [] DecimalLeqZero(qty) ->
              Raises("ValueError", "quantity", "Quantity must be greater than 0.")
         [] OTHER -> Returns(qty)

\* the Optional[Decimal] value None
NoDecimal == [kind |-> "none", neg |-> FALSE, digits |-> <<>>, exp |-> 0]

\* the body shared by the LIMIT and the STOP_MARKET branch
RequiredPrice(price, label) ==
    IF price = PyNone
    THEN Raises("ValueError", "price", label \o " is required.")
    ELSE LET p == DecimalOf(PyStr(price))
         IN CASE p.kind = "bad" ->
                   Raises("ValueError", "price", label \o " is not a valid number.")
              [] p.kind = "nan" ->
                   Raises("InvalidOperation", "price", "comparison involving NaN")
              [] DecimalLeqZero(p) ->
                   Raises("ValueError", "price", label \o " must be greater than 0.")
              [] OTHER -> Returns(p)

\* variant: the STOP_MARKET branch is missing
validate_price_limit_only(price, order_type) ==
    CASE order_type = LIMIT -> RequiredPrice(price, "Price")
      [] OTHER -> Returns(NoDecimal)

validate_price(price, order_type) ==
    CASE order_type = LIMIT -> RequiredPrice(price, "Price")
      [] order_type = STOP_MARKET -> RequiredPrice(price, "Stop price")
      [] OTHER -> Returns(NoDecimal)

\* variant: side is validated before symbol
ValidationOrderSideFirst ==
    <<"side", "symbol", "order_type", "quantity", "price">>

\* the order in which the dict display of validate_all evaluates its values
ValidationOrder == <<"symbol", "side", "order_type", "quantity", "price">>

\* one entry of the dict display of validate_all
ValidateField(field, a) ==
    CASE field = "symbol" -> validate_symbol(a.symbol)
      [] field = "side" -> validate_side(a.side)
      [] field = "order_type" -> validate_order_type(a.order_type)
      [] field = "quantity" -> validate_quantity(a.quantity)
      [] OTHER -> validate_price(a.price, Upper(Strip(a.order_type)))

\* evaluation of the entries from position i on; checked lists the
\* validators called so far and values what they returned
RECURSIVE EvalEntries(_, _, _, _)
EvalEntries(a, i, checked, values) ==
    IF i > Len(ValidationOrder)
    THEN [ok |-> TRUE, value |-> values, exc |-> NoExc, checked |-> checked]
    ELSE LET f == ValidationOrder[i]
             r == ValidateField(f, a)
         IN IF r.ok
            THEN EvalEntries(a, i + 1, Append(checked, f),
                             (f :> r.value) @@ values)
            ELSE [ok |-> FALSE, value |-> values, exc |-> r.exc,
                  checked |-> Append(checked, f)]

\* validate_all(symbol, side, order_type, quantity, price), a the arguments
validate_all(a) == EvalEntries(a, 1, <<>>, <<>>)

(***************************************************************************)
(* bot/client.py: parameter dicts, signing and what goes on the wire.      *)
(* A dict is the sequence of its <<key, value>> items in insertion order.  *)
(***************************************************************************)
RECV_WINDOW == 5000

Keys(d) == {d[i][1] : i \in DOMAIN d}

\* d[k] = v: an existing key keeps its position, a new key goes last
DictSet(d, k, v) ==
    IF k \in Keys(d)
    THEN [i \in DOMAIN d |-> IF d[i][1] = k THEN <<k, v>> ELSE d[i]]
    ELSE Append(d, <<k, v>>)

\* d[k] for a key of d
DictGet(d, k) == d[CHOOSE i \in DOMAIN d : d[i][1] = k][2]

\* urllib.parse.quote_plus on one character of the modelled alphabet
QuoteChar(c) ==
    CASE c = " " -> "+"
      [] c = "+" -> "%2B"
      [] c = "=" -> "%3D"
      [] c = "&" -> "%26"
      [] OTHER -> c

\* a str holding a hexadecimal digest, kept symbolic
PyDigest(d) == [t |-> "hex", s |-> <<d>>, n |-> 0]

\* quote_plus(str(v))
QuotePlus(v) ==
    LET text == PyStr(v)
    IN IF v.t = "hex" THEN Join(text)
       ELSE Join([i \in DOMAIN text |-> QuoteChar(text[i])])

\* urllib.parse.urlencode(d): key=value items joined by &
RECURSIVE urlencode(_)
urlencode(d) ==
    IF d = <<>> THEN ""
    ELSE LET item == d[1][1] \o "=" \o QuotePlus(d[1][2])
         IN IF Len(d) = 1 THEN item ELSE item \o "&" \o urlencode(Tail(d))

\* hmac.new(key, msg, sha256).hexdigest(): a collision-free digest is a
\* term over the key and the message
HmacSha256(key, msg) == "hmac-sha256(" \o key \o "," \o msg \o ")"

\* BinanceClient._sign
sign(api_secret, params) == HmacSha256(api_secret, urlencode(params))

\* variant: the signature is computed before recvWindow is set
build_signed_params_early(api_secret, params, now) ==
    LET p1 == DictSet(params, "timestamp", PyInt(now))
        p2 == DictSet(p1, "signature", PyDigest(sign(api_secret, p1)))
        p3 == DictSet(p2, "recvWindow", PyInt(RECV_WINDOW))
    IN [params |-> p3, signed |-> p1]

\* BinanceClient._build_signed_params, now what _timestamp() returns;
\* signed is the dict that was handed to _sign
build_signed_params(api_secret, params, now) ==
    LET p1 == DictSet(params, "timestamp", PyInt(now))
        p2 == DictSet(p1, "recvWindow", PyInt(RECV_WINDOW))
        p3 == DictSet(p2, "signature", PyDigest(sign(api_secret, p2)))
    IN [params |-> p3, signed |-> p2]

\* what session.request(method, url, params=... / data=...) puts in the
\* query string or the form body: the items whose value is not None
RECURSIVE Transmitted(_)
Transmitted(d) ==
    IF d = <<>> THEN <<>>
    ELSE IF d[1][2].t = "none" THEN Transmitted(Tail(d))
         ELSE <<d[1]>> \o Transmitted(Tail(d))

\* params = {symbol, side, type, quantity, positionSide}
BaseOrderParams(a) ==
    << <<"symbol", a.symbol>>, <<"side", a.side>>, <<"type", a.order_type>>,
       <<"quantity", a.quantity>>, <<"positionSide", a.position_side>> >>

\* time_in_force or "GTC": None and the empty string are falsy
TimeInForceOrDefault(time_in_force) ==
    IF time_in_force = PyNone \/ time_in_force = PyText(<<>>)
    THEN PyText(<<"G","T","C">>)
    ELSE time_in_force

\* if order_type == "LIMIT": price and timeInForce
WithLimitFields(d, a) ==
    IF a.order_type = PyText(LIMIT)
    THEN DictSet(DictSet(d, "price", a.price), "timeInForce",
                 TimeInForceOrDefault(a.time_in_force))
    ELSE d

\* if order_type == "STOP_MARKET": stopPrice
WithStopField(d, a) ==
    IF a.order_type = PyText(STOP_MARKET)
    THEN DictSet(d, "stopPrice", a.stop_price)
    ELSE d

\* variant: reduceOnly is always sent
WithReduceOnlyAlways(d, a) ==
    DictSet(d, "reduceOnly",
            IF a.reduce_only THEN PyText(<<"t","r","u","e">>)
            ELSE PyText(<<"f","a","l","s","e">>))

\* if reduce_only: reduceOnly = "true"
WithReduceOnly(d, a) ==
    IF a.reduce_only
    THEN DictSet(d, "reduceOnly", PyText(<<"t","r","u","e">>))
    ELSE d

\* the fields that BinanceClient.place_order assembles
OrderParams(a) ==
    WithReduceOnly(WithStopField(WithLimitFields(BaseOrderParams(a), a), a), a)

(***************************************************************************)
(* The retry loop of BinanceClient._request.                               *)
(***************************************************************************)
NoBody == [kind |-> "none", hasCode |-> FALSE, code |-> 0,
           hasMsg |-> FALSE, msg |-> "", orderId |-> 0]

\* response bodies: a JSON object without code, a JSON array, a JSON object
\* with the success code, two rejections and a body that is not JSON
OrderBody == [NoBody EXCEPT !.kind = "dict", !.orderId = 7]
ListBody == [NoBody EXCEPT !.kind = "list"]
SuccessCodeBody ==
    [NoBody EXCEPT !.kind = "dict", !.hasCode = TRUE, !.code = 200,
                   !.hasMsg = TRUE, !.msg = "success"]
RejectBody ==
    [NoBody EXCEPT !.kind = "dict", !.hasCode = TRUE, !.code = -1121,
                   !.hasMsg = TRUE, !.msg = "Invalid symbol."]
RejectNoMsgBody ==
    [NoBody EXCEPT !.kind = "dict", !.hasCode = TRUE, !.code = -2019]
TextBody == [NoBody EXCEPT !.kind = "text"]

NoResponse == [status_code |-> 0, body |-> NoBody]

Responses ==
    {[status_code |-> 200, body |-> OrderBody],
     [status_code |-> 200, body |-> ListBody],
     [status_code |-> 200, body |-> SuccessCodeBody],
     [status_code |-> 400, body |-> RejectBody],
     [status_code |-> 400, body |-> RejectNoMsgBody],
     [status_code |-> 502, body |-> TextBody]}

\* the exceptions session.request raises
TransportErrors ==
    {"requests.Timeout", "requests.ConnectionError",
     "requests.RequestException"}

\* what one session.request call does: raise, or deliver a response
Outcomes ==
    {[raised |-> TRUE, type |-> t, response |-> NoResponse] :
        t \in TransportErrors}
    \cup {[raised |-> FALSE, type |-> "none", response |-> r] : r \in Responses}

\* the try body of one attempt: what it returns or raises.  response.json()
\* raises requests.exceptions.JSONDecodeError on a body that is not JSON
TryBody(o) ==
    LET data == o.response.body
    IN CASE o.raised -> [kind |-> "raise", data |-> NoBody,
                         exc |-> Exc(o.type, "", "", 0, 0, NoCause)]
         [] data.kind = "text" ->
                [kind |-> "raise", data |-> NoBody,
                 exc |-> Exc("requests.JSONDecodeError", "", "", 0, 0, NoCause)]
         [] data.kind = "dict" /\ data.hasCode /\ data.code # 200 ->
                [kind |-> "raise", data |-> NoBody,
                 exc |-> Exc("BinanceAPIError", "",
                             IF data.hasMsg THEN data.msg ELSE "Unknown error",
                             data.code, o.response.status_code, NoCause)]
         [] OTHER -> [kind |-> "return", data |-> data, exc |-> NoExc]

\* variant: the BinanceAPIError clause is missing and the error is caught
CaughtIncludingApiError(type) ==
    type \in {"requests.Timeout", "requests.ConnectionError",
              "requests.RequestException", "requests.JSONDecodeError",
              "BinanceAPIError"}

\* the except clauses: BinanceAPIError is re-raised; requests' Timeout,
\* ConnectionError and every other RequestException (JSONDecodeError is one)
\* are caught
Caught(type) ==
    type \in {"requests.Timeout", "requests.ConnectionError",
              "requests.RequestException", "requests.JSONDecodeError"}

\* variant: only the first exception is recorded
RecordFirstException(prev, type, n) ==
    IF prev.attempt = 0 THEN [type |-> type, attempt |-> n] ELSE prev

\* last_exception = exc in an except clause of attempt n
RecordException(prev, type, n) == [type |-> type, attempt |-> n]

\* if attempt < self.max_retries
SleepsAfter(n, max_retries) == n < max_retries

\* variant: wait = 2 ** attempt
BackoffFromAttempt(n) == 2 ^ n

\* wait = 2 ** (attempt - 1)
Backoff(n) == 2 ^ (n - 1)

\* variant: range(1, self.max_retries + 2)
LoopContinuesOneMore(n, max_retries) == n + 1 <= max_retries + 1

\* for attempt in range(1, self.max_retries + 1): is there an attempt n + 1
LoopContinues(n, max_retries) == n + 1 <= max_retries

\* raise ConnectionError(...) from last_exception (the builtin class)
Exhausted(last) ==
    [kind |-> "raise", data |-> NoBody,
     exc |-> Exc("ConnectionError", "", "Failed to reach", 0, 0, last)]

Pending == [kind |-> "pending", data |-> NoBody, exc |-> NoExc]

(***************************************************************************)
(* Inputs of the model.                                                    *)
(***************************************************************************)
ApiKeys == {"", "key"}
ApiSecrets == {"", "secret"}

BTC == <<"B","T","C">>
BUY == <<"B","U","Y">>

RawSymbols == {<<" ","b","t","c"," ">>, <<" ">>, <<"B","T","1">>}
RawSides == {<<"b","u","y">>, <<"H","O","L","D">>}
RawTypes == {MARKET, <<" ","l","i","m","i","t">>, STOP_MARKET, <<"F","O","O">>}
RawNumbers ==
    {<<"1",".","5">>, <<"0">>, <<"-","1">>, <<"a","b","c">>, <<"N","a","N">>,
     <<"I","n","f","i","n","i","t","y">>}
RawQuantities == {PyText(x) : x \in RawNumbers}
RawPrices == {PyNone} \cup {PyText(x) : x \in RawNumbers}
TimesInForce == {PyText(<<"G","T","C">>), PyText(<<"I","O","C">>)}

(***************************************************************************)
(* State.                                                                  *)
(***************************************************************************)
VARIABLES
    client,          \* the BinanceClient, or NoClient before construction
    pc,              \* "idle", "attempt", "sleep" or "done"
    op,              \* the operation in progress: its name and arguments
    validated,       \* what validate_all did in orders.place_order
    params,          \* the params dict of _request
    signCalls,       \* the dicts handed to _sign during this operation
    attempt,         \* the loop variable of _request
    last_exception,  \* the local last_exception of _request
    log,             \* the attempts and sleeps of this operation, in order
    reqResult,       \* what _request returned or raised
    result           \* what the operation returned or raised

vars == <<client, pc, op, validated, params, signCalls, attempt,
          last_exception, log, reqResult, result>>

NoClient ==
    [exists |-> FALSE, api_key |-> "", api_secret |-> "", max_retries |-> 0]
NoOp == [name |-> "none"]
NotValidated == [ok |-> FALSE, value |-> <<>>, exc |-> NoExc, checked |-> <<>>]
NoAttempts == [type |-> "RuntimeError", attempt |-> 0]

Init ==
    /\ client = NoClient
    /\ pc = "idle"
    /\ op = NoOp
    /\ validated = NotValidated
    /\ params = <<>>
    /\ signCalls = <<>>
    /\ attempt = 0
    /\ last_exception = NoAttempts
    /\ log = <<>>
    /\ reqResult = Pending
    /\ result = Pending

\* an operation that ends without calling _request
EndsWithout(o, v, r) ==
    /\ pc' = "done"
    /\ op' = o
    /\ validated' = v
    /\ result' = r
    /\ UNCHANGED <<params, signCalls, attempt, last_exception, log, reqResult>>

(***************************************************************************)
(* BinanceClient.__init__                                                  *)
(***************************************************************************)
\* variant: if not api_key and not api_secret
BothCredentialsMissing(api_key, api_secret) == api_key = "" /\ api_secret = ""

\* if not api_key or not api_secret
CredentialsMissing(api_key, api_secret) == api_key = "" \/ api_secret = ""

Construct(api_key, api_secret, max_retries) ==
    /\ pc = "idle"
    /\ ~client.exists
    /\ IF CredentialsMissing(api_key, api_secret)
       THEN /\ UNCHANGED client
            /\ EndsWithout([name |-> "__init__",
                            args |-> [api_key |-> api_key,
                                      api_secret |-> api_secret]],
                           NotValidated,
                 [kind |-> "raise", data |-> NoBody,
                  exc |-> Exc("ValueError", "",
                              "API key and secret must not be empty.",
                              0, 0, NoCause)])
       ELSE /\ client' = [exists |-> TRUE, api_key |-> api_key,
                          api_secret |-> api_secret,
                          max_retries |-> max_retries]
            /\ UNCHANGED <<pc, op, validated, params, signCalls, attempt,
                           last_exception, log, reqResult, result>>

(***************************************************************************)
(* What each operation makes of the outcome of its _request call.          *)
(***************************************************************************)
BoolBody(b) == [NoBody EXCEPT !.kind = IF b THEN "True" ELSE "False"]

AttributeError ==
    [kind |-> "raise", data |-> NoBody,
     exc |-> Exc("AttributeError", "", "no attribute 'get'", 0, 0, NoCause)]

\* response.get(...) on the parsed body
UsesGet(r) ==
    IF r.kind = "return" /\ r.data.kind # "dict" THEN AttributeError ELSE r

\* orders._format_order_response
FormatOrderResponse(r) ==
    IF r.kind = "return"
    THEN [r EXCEPT !.data = [r.data EXCEPT !.kind = "formatted"]]
    ELSE r

\* variant: ping catches BinanceAPIError only
OpResultPingNarrow(name, r) ==
    CASE name = "ping" /\ (r.kind = "return"
                             \/ r.exc.type = "BinanceAPIError") ->
             [kind |-> "return", data |-> BoolBody(r.kind = "return"),
              exc |-> NoExc]
      [] name \in {"place_order", "cancel_order"} -> UsesGet(r)
      [] name = "orders.place_order" -> FormatOrderResponse(UsesGet(r))
      [] OTHER -> r

\* what the operation returns or raises when _request returns or raises r;
\* ping turns every exception into False
OpResult(name, r) ==
    CASE name = "ping" ->
             [kind |-> "return", data |-> BoolBody(r.kind = "return"),
              exc |-> NoExc]
      [] name \in {"place_order", "cancel_order"} -> UsesGet(r)
      [] name = "orders.place_order" -> FormatOrderResponse(UsesGet(r))
      [] OTHER -> r

\* the readings of the clock: int(time.time() * 1000)
Timestamps == 1..MaxTimestamp

(***************************************************************************)
(* BinanceClient._request up to its first attempt.                         *)
(***************************************************************************)
Request(o, v, p, signed) ==
    /\ pc = "idle"
    /\ client.exists
    /\ IF signed
       THEN \E now \in Timestamps :
              LET built == build_signed_params(client.api_secret, p, now)
              IN /\ params' = built.params
                 /\ signCalls' = <<built.signed>>
       ELSE /\ params' = p
            /\ signCalls' = <<>>
    /\ op' = o
    /\ validated' = v
    /\ attempt' = 0
    /\ last_exception' = NoAttempts
    /\ log' = <<>>
    /\ UNCHANGED client
    /\ IF LoopContinues(0, client.max_retries)
       THEN /\ pc' = "attempt"
            /\ UNCHANGED <<reqResult, result>>
       ELSE /\ pc' = "done"
            /\ reqResult' = Exhausted(NoAttempts)
            /\ result' = OpResult(o.name, Exhausted(NoAttempts))

(***************************************************************************)
(* The operations of BinanceClient and orders.place_order.                 *)
(***************************************************************************)
Ping == Request([name |-> "ping"], NotValidated, <<>>, FALSE)

GetExchangeInfo ==
    Request([name |-> "get_exchange_info"], NotValidated, <<>>, FALSE)

GetAccount ==
    Request([name |-> "get_account"], NotValidated, <<>>, TRUE)

\* BinanceClient.place_order; a holds its nine arguments
ClientPlaceOrder(a) ==
    Request([name |-> "place_order", args |-> a], NotValidated,
            OrderParams(a), TRUE)

CancelOrder(symbol, order_id) ==
    Request([name |-> "cancel_order",
             args |-> [symbol |-> symbol, order_id |-> order_id]],
            NotValidated,
            << <<"symbol", symbol>>, <<"orderId", order_id>> >>, TRUE)

GetOpenOrders(symbol) ==
    Request([name |-> "get_open_orders", args |-> [symbol |-> symbol]],
            NotValidated,
            IF symbol = PyNone \/ symbol = PyText(<<>>)
            THEN <<>> ELSE << <<"symbol", symbol>> >>,
            TRUE)

GetOrder(symbol, order_id) ==
    Request([name |-> "get_order",
             args |-> [symbol |-> symbol, order_id |-> order_id]],
            NotValidated,
            << <<"symbol", symbol>>, <<"orderId", order_id>> >>, TRUE)

\* the keyword arguments orders.place_order passes to the client; v is the
\* dict returned by validate_all
OrderKwargs(v, time_in_force, reduce_only) ==
    [symbol |-> PyText(v.symbol),
     side |-> PyText(v.side),
     order_type |-> PyText(v.order_type),
     quantity |-> PyText(DecimalStr(v.quantity)),
     price |-> IF v.order_type = LIMIT
               THEN PyText(DecimalStr(v.price)) ELSE PyNone,
     time_in_force |-> IF v.order_type = LIMIT THEN time_in_force ELSE PyNone,
     stop_price |-> IF v.order_type # LIMIT /\ v.order_type = STOP_MARKET
                    THEN PyText(DecimalStr(v.price)) ELSE PyNone,
     reduce_only |-> reduce_only,
     position_side |-> PyText(<<"B","O","T","H">>)]

\* orders.place_order; a holds symbol, side, order_type, quantity, price
OrdersPlaceOrder(a, time_in_force, reduce_only) ==
    /\ pc = "idle"
    /\ client.exists
    /\ LET v == validate_all(a)
           o == [name |-> "orders.place_order",
                 args |-> [raw |-> a, time_in_force |-> time_in_force,
                           reduce_only |-> reduce_only]]
       IN IF ~v.ok
          THEN /\ UNCHANGED client
               /\ EndsWithout(o, v, [kind |-> "raise", data |-> NoBody,
                                     exc |-> v.exc])
          ELSE Request(o, v,
                       OrderParams(OrderKwargs(v.value, time_in_force,
                                               reduce_only)),
                       TRUE)

(***************************************************************************)
(* One pass of the retry loop, the backoff sleep, and the end of a call.   *)
(***************************************************************************)
\* _request returns or raises r, and the operation that called it ends
Finish(r) ==
    /\ pc' = "done"
    /\ reqResult' = r
    /\ result' = OpResult(op.name, r)

\* attempt n: whether session.request raised, the response it delivered
\* otherwise, and the fields it transmitted
\* variant: _build_signed_params is called inside the loop, at attempt n
LogAttemptResigned(n, o) ==
    [ev |-> "attempt", n |-> n, raised |-> o.raised,
     response |-> o.response, wait |-> 0,
     sent |-> IF signCalls = <<>>
              THEN Transmitted(params)
              ELSE Transmitted(
                       build_signed_params(
                           client.api_secret,
                           SelectSeq(params,
                                     LAMBDA kv : kv[1] \notin {"timestamp",
                                                               "recvWindow",
                                                               "signature"}),
                           n).params)]

\* attempt n of the loop: what session.request was given and what it did
LogAttempt(n, o) ==
    [ev |-> "attempt", n |-> n, raised |-> o.raised,
     response |-> o.response, wait |-> 0, sent |-> Transmitted(params)]

\* time.sleep(wait) after attempt n
LogSleep(n, wait) ==
    [ev |-> "sleep", n |-> n, raised |-> FALSE,
     response |-> NoResponse, wait |-> wait, sent |-> <<>>]

Attempt ==
    /\ pc = "attempt"
    /\ \E o \in Outcomes :
         LET n == attempt + 1
             t == TryBody(o)
             last == RecordException(last_exception, t.exc.type, n)
         IN /\ attempt' = n
            /\ log' = Append(log, LogAttempt(n, o))
            /\ IF t.kind = "return" \/ ~Caught(t.exc.type)
               THEN /\ Finish(t)
                    /\ UNCHANGED last_exception
               ELSE /\ last_exception' = last
                    /\ IF SleepsAfter(n, client.max_retries)
                       THEN /\ pc' = "sleep"
                            /\ UNCHANGED <<reqResult, result>>
                       ELSE IF LoopContinues(n, client.max_retries)
                            THEN /\ pc' = "attempt"
                                 /\ UNCHANGED <<reqResult, result>>
                            ELSE Finish(Exhausted(last))
    /\ UNCHANGED <<client, op, validated, params, signCalls>>

Sleep ==
    /\ pc = "sleep"
    /\ log' = Append(log, LogSleep(attempt, Backoff(attempt)))
    /\ IF LoopContinues(attempt, client.max_retries)
       THEN /\ pc' = "attempt"
            /\ UNCHANGED <<reqResult, result>>
       ELSE Finish(Exhausted(last_exception))
    /\ UNCHANGED <<client, op, validated, params, signCalls, attempt,
                   last_exception>>

\* the caller has the result; the client is ready for the next operation
Return ==
    /\ pc = "done"
    /\ pc' = "idle"
    /\ op' = NoOp
    /\ validated' = NotValidated
    /\ params' = <<>>
    /\ signCalls' = <<>>
    /\ attempt' = 0
    /\ last_exception' = NoAttempts
    /\ log' = <<>>
    /\ reqResult' = Pending
    /\ result' = Pending
    /\ UNCHANGED client

(***************************************************************************)
(* Arguments of the operations.                                            *)
(***************************************************************************)
RawOrders ==
    [symbol : RawSymbols, side : RawSides, order_type : RawTypes,
     quantity : RawQuantities, price : RawPrices]

ClientOrders ==
    [symbol : {PyText(BTC)}, side : {PyText(BUY)},
     order_type : {PyText(MARKET), PyText(LIMIT), PyText(STOP_MARKET)},
     quantity : {PyText(<<"1">>)},
     price : {PyNone, PyText(<<"1","0",".","5">>)},
     time_in_force : {PyNone, PyText(<<"I","O","C">>)},
     stop_price : {PyNone, PyText(<<"9">>)},
     reduce_only : BOOLEAN,
     position_side : {PyText(<<"B","O","T","H">>)}]

Next ==
    \/ \E k \in ApiKeys, s \in ApiSecrets, m \in 0..MaxRetriesBound :
         Construct(k, s, m)
    \/ Ping
    \/ GetExchangeInfo
    \/ GetAccount
    \/ \E a \in ClientOrders : ClientPlaceOrder(a)
    \/ CancelOrder(PyText(BTC), PyInt(7))
    \/ \E sym \in {PyNone, PyText(BTC)} : GetOpenOrders(sym)
    \/ GetOrder(PyText(BTC), PyInt(7))
    \/ \E a \in RawOrders, tif \in TimesInForce, ro \in BOOLEAN :
         OrdersPlaceOrder(a, tif, ro)
    \/ Attempt
    \/ Sleep
    \/ Return

Spec == Init /\ [][Next]_vars

\* the retry loop is sequential code: a step that is enabled is taken
FairSpec == Spec /\ WF_vars(Attempt) /\ WF_vars(Sleep)

(***************************************************************************)
(* Properties.                                                             *)
(***************************************************************************)
\* the attempts of the operation in progress, in order
AttemptEntries == SelectSeq(log, LAMBDA e : e.ev = "attempt")

\* the sleeps of the operation in progress, in order
SleepWaits ==
    LET sl == SelectSeq(log, LAMBDA e : e.ev = "sleep")
    IN [i \in DOMAIN sl |-> sl[i].wait]

\* a response whose parsed body is a mapping with a code other than 200
IsRejection(e) ==
    /\ e.ev = "attempt"
    /\ ~e.raised
    /\ e.response.body.kind = "dict"
    /\ e.response.body.hasCode
    /\ e.response.body.code # 200

\* a response whose body parses and is not a rejection
IsSuccess(e) ==
    /\ e.ev = "attempt"
    /\ ~e.raised
    /\ e.response.body.kind \in {"dict", "list"}
    /\ ~IsRejection(e)

\* C1: an attempt that receives a JSON object with code # 200 is the last
\* event of the call: _request raises BinanceAPIError with that code, the
\* body's msg and the HTTP status at once, with no retry and no sleep
C1_ApiErrorNotRetried ==
    \A i \in DOMAIN log :
        IsRejection(log[i]) =>
            /\ i = Len(log)
            /\ pc = "done"
            /\ attempt = log[i].n
            /\ reqResult.kind = "raise"
            /\ reqResult.exc.type = "BinanceAPIError"
            /\ reqResult.exc.code = log[i].response.body.code
            /\ reqResult.exc.status_code = log[i].response.status_code
            /\ (log[i].response.body.hasMsg =>
                    reqResult.exc.msg = log[i].response.body.msg)
            /\ (log[i].n = 1 => Len(log) = 1)

C1_Witness ==
    /\ pc = "done"
    /\ client.max_retries = 3
    /\ Len(log) = 1
    /\ IsRejection(log[1])
    /\ log[1].response.body.code = -1121
    /\ reqResult.exc.type = "BinanceAPIError"

\* every attempt so far ended in an exception raised by the transport
AllRaised == \A i \in DOMAIN log : log[i].ev = "attempt" => log[i].raised

\* C2: once max_retries attempts have each ended in a transport failure the
\* call is over: _request raises ConnectionError from the exception of
\* attempt max_retries, after exactly max_retries attempts
C2_ExhaustionWrapsLast ==
    (attempt >= 1 /\ attempt = client.max_retries /\ AllRaised) =>
        /\ pc = "done"
        /\ Len(AttemptEntries) = client.max_retries
        /\ log[Len(log)].ev = "attempt"
        /\ reqResult.kind = "raise"
        /\ reqResult.exc.type = "ConnectionError"
        /\ reqResult.exc.cause = last_exception
        /\ reqResult.exc.cause.attempt = client.max_retries
        /\ reqResult.exc.cause.type \in TransportErrors

C2_Witness ==
    /\ pc = "done"
    /\ client.max_retries = 3
    /\ attempt = 3
    /\ AllRaised
    /\ reqResult.exc.type = "ConnectionError"
    /\ reqResult.exc.cause.attempt = 3

\* C3: the log alternates attempt i, sleep of 2^(i-1) seconds, attempt i+1;
\* a call that is over ends with an attempt, never with a sleep; and when
\* k failures are followed by a success the payload of attempt k+1 is
\* returned after the sleeps 2^0 .. 2^(k-1)
C3_BackoffSequence ==
    /\ \A i \in DOMAIN log :
         IF i % 2 = 1
         THEN log[i].ev = "attempt" /\ log[i].n = (i + 1) \div 2
         ELSE /\ log[i].ev = "sleep"
              /\ log[i].wait = 2 ^ ((i \div 2) - 1)
              /\ i < Len(log) \/ pc = "attempt"
    /\ pc = "done" /\ log # <<>> => log[Len(log)].ev = "attempt"
    /\ \A k \in 0..(MaxRetriesBound + 1) :
         (/\ pc \in {"done", "sleep"}
          /\ attempt = k + 1
          /\ \A i \in DOMAIN AttemptEntries : i <= k => AttemptEntries[i].raised
          /\ IsSuccess(AttemptEntries[k + 1]))
         => /\ pc = "done"
            /\ k < client.max_retries
            /\ reqResult.kind = "return"
            /\ reqResult.data = AttemptEntries[k + 1].response.body
            /\ SleepWaits = [i \in 1..k |-> 2 ^ (i - 1)]

C3_Witness ==
    /\ pc = "done"
    /\ client.max_retries = 3
    /\ attempt = 3
    /\ AttemptEntries[1].raised /\ AttemptEntries[2].raised
    /\ IsSuccess(AttemptEntries[3])
    /\ SleepWaits = <<1, 2>>
    /\ reqResult.kind = "return"

\* C4: _request never makes more than max_retries attempts, every call that
\* entered the retry loop ends, and it ends in exactly one of: the parsed
\* body returned, BinanceAPIError raised, ConnectionError raised
C4_Outcome ==
    /\ attempt <= client.max_retries
    /\ Len(AttemptEntries) = attempt
    /\ (pc = "done" /\ reqResult # Pending) =>
          \/ /\ reqResult.kind = "return"
             /\ reqResult.data.kind \in {"dict", "list"}
             /\ reqResult.exc = NoExc
          \/ /\ reqResult.kind = "raise"
             /\ reqResult.exc.type \in {"BinanceAPIError", "ConnectionError"}
             /\ reqResult.data = NoBody
    /\ (pc \in {"attempt", "sleep"}) => reqResult = Pending

C4_Terminates ==
    /\ []C4_Outcome
    /\ (pc \in {"attempt", "sleep"}) ~> (pc = "done" /\ reqResult # Pending)

C4_Witness ==
    /\ pc = "done"
    /\ client.max_retries = 2
    /\ attempt = 2
    /\ reqResult.kind = "raise"
    /\ reqResult.exc.type = "ConnectionError"
    /\ ~log[1].raised

\* C5: the dict handed to _sign holds every business field, timestamp and
\* recvWindow and no signature; the signature is the only later addition
SignedOps ==
    {"get_account", "place_order", "cancel_order", "get_open_orders",
     "get_order", "orders.place_order"}

C5_SignedAfterAllFields ==
    /\ (op.name \in SignedOps /\ (attempt > 0 \/ pc = "attempt")) =>
          Len(signCalls) = 1
    /\ op.name \notin SignedOps => signCalls = <<>>
    /\ \A i \in DOMAIN signCalls :
         /\ "signature" \notin Keys(signCalls[i])
         /\ {"timestamp", "recvWindow"} \subseteq Keys(signCalls[i])
         /\ Keys(params) = Keys(signCalls[i]) \cup {"signature"}
         /\ SubSeq(params, 1, Len(params) - 1) = signCalls[i]
         /\ params[Len(params)][1] = "signature"
         /\ (op.name \in {"place_order", "orders.place_order"} =>
               {"symbol", "side", "type", "quantity", "positionSide"}
                   \subseteq Keys(signCalls[i]))
         /\ (op.name \in {"cancel_order", "get_order"} =>
               {"symbol", "orderId"} \subseteq Keys(signCalls[i]))

C5_Witness ==
    /\ op.name = "place_order"
    /\ Len(signCalls) = 1
    /\ {"price", "timeInForce", "reduceOnly"} \subseteq Keys(signCalls[1])
    /\ "signature" \in Keys(params)
    /\ attempt = 2

\* the items of a dict other than its signature
WithoutSignature(d) == SelectSeq(d, LAMBDA item : item[1] # "signature")

\* C6: every transmitted signed request carries timestamp, recvWindow and
\* signature, and the signature is the HMAC-SHA256 of the encoding of
\* exactly the other transmitted fields
C6_SignatureCoversTransmitted ==
    \A i \in DOMAIN log :
        (log[i].ev = "attempt" /\ op.name \in SignedOps) =>
            /\ {"timestamp", "recvWindow", "signature"}
                   \subseteq Keys(log[i].sent)
            /\ DictGet(log[i].sent, "signature") =
                   PyDigest(HmacSha256(client.api_secret,
                                       urlencode(WithoutSignature(log[i].sent))))

\* the order of the checks that the specification states
FieldsInOrder == <<"symbol", "side", "order_type", "quantity", "price">>

\* the positions of the fields whose validator rejects its argument
InvalidPositions(a) ==
    {i \in DOMAIN FieldsInOrder : ~ValidateField(FieldsInOrder[i], a).ok}

Least(S) == CHOOSE i \in S : \A j \in S : i <= j

\* C7: validate_all calls the validators in the order symbol, side,
\* order_type, quantity, price, raises the error of the first invalid field
\* and calls no validator after it
C7_FirstFailureWins ==
    op.name = "orders.place_order" =>
        LET a == op.args.raw
            bad == InvalidPositions(a)
        IN IF bad = {}
           THEN validated.ok /\ validated.checked = FieldsInOrder
           ELSE /\ ~validated.ok
                /\ validated.checked = SubSeq(FieldsInOrder, 1, Least(bad))
                /\ validated.exc.field = FieldsInOrder[Least(bad)]
                /\ validated.exc =
                       ValidateField(FieldsInOrder[Least(bad)], a).exc

C7_Witness ==
    /\ op.name = "orders.place_order"
    /\ ~validate_symbol(op.args.raw.symbol).ok
    /\ ~validate_side(op.args.raw.side).ok
    /\ validated.exc.field = "symbol"
    /\ validated.checked = <<"symbol">>

\* raw prices that are missing, unparsable or not positive
MissingPrice == PyNone
UnparsablePrices == {PyText(<<"a","b","c">>)}
NonPositivePrices == {PyText(<<"0">>), PyText(<<"-","1">>)}

\* a Decimal that is greater than 0
IsPositiveDecimal(d) ==
    \/ d.kind = "inf" /\ ~d.neg
    \/ d.kind = "num" /\ ~d.neg /\ \E i \in DOMAIN d.digits : d.digits[i] # "0"

\* C8: a returned order has a price iff its type is LIMIT or STOP_MARKET,
\* a present price is greater than 0, a MARKET order never has one, and a
\* missing, unparsable or non-positive price of a LIMIT or STOP_MARKET
\* order makes validate_all raise ValueError
C8_PricePresence ==
    op.name = "orders.place_order" =>
        LET a == op.args.raw
            t == Upper(Strip(a.order_type))
        IN /\ validated.ok =>
                /\ (validated.value.price # NoDecimal) <=>
                       (validated.value.order_type \in {LIMIT, STOP_MARKET})
                /\ (validated.value.price # NoDecimal =>
                       IsPositiveDecimal(validated.value.price))
                /\ (validated.value.order_type = MARKET =>
                       validated.value.price = NoDecimal)
           /\ (/\ t \in {LIMIT, STOP_MARKET}
               /\ a.price \in {MissingPrice} \cup UnparsablePrices
                                 \cup NonPositivePrices)
              => /\ ~validated.ok
                 /\ (validated.checked = FieldsInOrder =>
                        /\ validated.exc.type = "ValueError"
                        /\ validated.exc.field = "price")

C8_Witness ==
    /\ op.name = "orders.place_order"
    /\ validated.ok
    /\ validated.value.order_type = MARKET
    /\ op.args.raw.price \in UnparsablePrices
    /\ validated.value.price = NoDecimal

\* C9: an order with a field that fails validation ends in ValueError (the
\* InvalidInput of the validators) without any network attempt, and an
\* attempt is made only after all five validators have returned
C9_InvalidInputBeforeNetwork ==
    op.name = "orders.place_order" =>
        /\ ~validated.ok =>
              /\ pc = "done"
              /\ attempt = 0
              /\ log = <<>>
              /\ result.kind = "raise"
              /\ result.exc.type = "ValueError"
        /\ (attempt > 0 \/ pc = "attempt") =>
              validated.ok /\ validated.checked = FieldsInOrder

\* C10: the field set place_order hands to _request always holds symbol,
\* side, type, quantity and positionSide; price and timeInForce iff the type
\* is LIMIT (timeInForce GTC when none was given); stopPrice iff the type is
\* STOP_MARKET; reduceOnly iff reduce_only is true
C10_ConditionalFields ==
    (op.name \in {"place_order", "orders.place_order"} /\ params # <<>>) =>
        LET keys == Keys(params)
            type == DictGet(params, "type")
            reduce_only == op.args.reduce_only
        IN /\ {"symbol", "side", "type", "quantity", "positionSide"}
                  \subseteq keys
           /\ ("price" \in keys) <=> (type = PyText(LIMIT))
           /\ ("timeInForce" \in keys) <=> (type = PyText(LIMIT))
           /\ ("stopPrice" \in keys) <=> (type = PyText(STOP_MARKET))
           /\ ("reduceOnly" \in keys) <=> reduce_only
           /\ (type = PyText(LIMIT) /\ op.name = "place_order") =>
                 DictGet(params, "timeInForce") =
                     IF op.args.time_in_force = PyNone
                     THEN PyText(<<"G","T","C">>)
                     ELSE op.args.time_in_force
           /\ (type = PyText(LIMIT) /\ op.name = "orders.place_order") =>
                 DictGet(params, "timeInForce") = op.args.time_in_force
           /\ op.name = "orders.place_order" =>
                 \A i \in DOMAIN log :
                     log[i].ev = "attempt" =>
                         Keys(log[i].sent) = keys

C10_Witness ==
    /\ op.name = "place_order"
    /\ DictGet(params, "type") = PyText(LIMIT)
    /\ op.args.time_in_force = PyNone
    /\ DictGet(params, "timeInForce") = PyText(<<"G","T","C">>)
    /\ "reduceOnly" \notin Keys(params)
    /\ "stopPrice" \notin Keys(params)
    /\ attempt = 1

\* raw quantities that are unparsable, zero or negative
RejectedQuantities ==
    {PyText(<<"a","b","c">>), PyText(<<"0">>), PyText(<<"-","1">>)}

\* C11: validate_quantity returns a Decimal greater than 0 or raises
\* ValueError; it raises ValueError on an unparsable, zero or negative
\* input, and no input makes it raise anything else
C11_QuantityPositiveOrInvalidInput ==
    (op.name = "orders.place_order"
        /\ \E i \in DOMAIN validated.checked : validated.checked[i] = "quantity")
    => LET q == op.args.raw.quantity
       IN /\ IF "quantity" \in DOMAIN validated.value
             THEN IsPositiveDecimal(validated.value.quantity)
             ELSE /\ validated.exc.field = "quantity"
                  /\ validated.exc.type = "ValueError"
          /\ q \in RejectedQuantities =>
                /\ "quantity" \notin DOMAIN validated.value
                /\ validated.exc.type = "ValueError"

\* a refused construction leaves no client; a client has both credentials
C12_ClientHasCredentials ==
    /\ client.exists => client.api_key # "" /\ client.api_secret # ""
    /\ op.name = "__init__" =>
          /\ op.args.api_key = "" \/ op.args.api_secret = ""
          /\ ~client.exists
          /\ pc = "done"
          /\ result.kind = "raise"
          /\ result.exc.type = "ValueError"
          /\ attempt = 0 /\ log = <<>>

\* C12: a construction with an empty key or an empty secret raises
\* ValueError (the ConfigurationError of the client) and leaves no client;
\* a client that exists has a non-empty key and a non-empty secret, and
\* keeps them
C12_ConstructionRefused ==
    /\ []C12_ClientHasCredentials
    /\ [][(~client.exists /\ client'.exists) =>
             /\ client'.api_key # "" /\ client'.api_secret # ""
             /\ pc = "idle" /\ pc' = "idle"]_vars
    /\ [][client.exists => client' = client]_vars

C12_Witness ==
    /\ op.name = "__init__"
    /\ op.args.api_key # ""
    /\ op.args.api_secret = ""
    /\ ~client.exists
    /\ result.exc.type = "ValueError"

\* the boolean of a finished ping against the outcome of its _request call
C13_PingOutcome ==
    (op.name = "ping" /\ pc = "done") =>
        /\ reqResult # Pending
        /\ result.kind = "return"
        /\ result.exc = NoExc
        /\ result.data.kind \in {"True", "False"}
        /\ (result.data.kind = "True") <=>
               (reqResult.kind = "return" /\ log # <<>>
                   /\ IsSuccess(log[Len(log)]))
        /\ (result.data.kind = "False") <=>
               (reqResult.kind = "raise"
                   /\ reqResult.exc.type \in {"BinanceAPIError",
                                              "ConnectionError"})

\* C13: ping returns True exactly when its _request call returns a body and
\* False whenever that call raises; ping itself never raises, and the same
\* client is ready for the next operation afterwards
C13_PingNeverFails ==
    /\ []C13_PingOutcome
    /\ [][(op.name = "ping" /\ pc = "done") =>
             /\ pc' = "idle"
             /\ client' = client
             /\ client'.exists]_vars

C13_Witness ==
    /\ op.name = "ping"
    /\ pc = "done"
    /\ client.max_retries = 2
    /\ attempt = 2
    /\ reqResult.exc.type = "ConnectionError"
    /\ result.kind = "return"
    /\ result.data.kind = "False"

\* C14: every attempt after the first follows an attempt on which
\* session.request raised, never one on which a response was received
C14_OnlyTransportFailuresRetried ==
    \A j \in 2..Len(AttemptEntries) :
        /\ AttemptEntries[j - 1].raised
        /\ AttemptEntries[j - 1].response = NoResponse

\* the attempts of the call in progress all sent what the first one sent
SameFieldsEveryAttempt ==
    \A j \in DOMAIN AttemptEntries :
        /\ AttemptEntries[j].sent = AttemptEntries[1].sent
        /\ AttemptEntries[j].sent = Transmitted(params)

\* C15: a signed call computes timestamp, recvWindow and signature once,
\* before the first attempt; every attempt transmits the fields of the first
\* one, and the loop and its sleeps leave the parameters as they are
C15_SignedOnce ==
    /\ []((attempt > 0 \/ pc \in {"attempt", "sleep"})
          => /\ (op.name \in SignedOps) <=> (Len(signCalls) = 1)
             /\ (op.name \notin SignedOps) <=> (signCalls = <<>>)
             /\ op.name \in SignedOps =>
                   /\ params[Len(params)][1] = "signature"
                   /\ {"timestamp", "recvWindow"} \subseteq Keys(params)
             /\ SameFieldsEveryAttempt)
    /\ [][(pc \in {"attempt", "sleep"}) =>
             /\ params' = params
             /\ signCalls' = signCalls]_vars

C15_Witness ==
    /\ op.name \in SignedOps
    /\ Len(signCalls) = 1
    /\ Len(AttemptEntries) = 3
    /\ SleepWaits = <<1, 2>>
    /\ AttemptEntries[1].raised /\ AttemptEntries[2].raised
    /\ AttemptEntries[3].sent = AttemptEntries[1].sent
    /\ \E i \in DOMAIN AttemptEntries[3].sent :
          AttemptEntries[3].sent[i][1] = "signature"

====
